---------------------------- MODULE Spec2Model ----------------------------
(***************************************************************************)
(* Hand-seal detection core (utils/hand-seal-detection-v2).                *)
(*                                                                         *)
(* Numbers.  Landmark coordinates are normalised image coordinates; the    *)
(* model writes them in hundredths (0.05 is 5, 0.3 is 30).  A Euclidean    *)
(* distance is carried as its square (in units of 1e-4), so that           *)
(* `distance < 0.05' is `d2 < 5*5' and the occlusion test                  *)
(* |d - d0| > 0.2 is decided exactly on the squares.  Confidences are      *)
(* written in hundredths as well (0.15 is 15).  The IEEE sums of the       *)
(* weights compare with every threshold of the code exactly as the decimal *)
(* sums do, except that a Rat sum of exactly 1.00 is 1.0000000000000002    *)
(* in double arithmetic.                                                   *)
(*                                                                         *)
(* JavaScript values carry a tag t: "undefined", "number", "nan",          *)
(* "object" or "array".  A missing array element and a missing coordinate  *)
(* are both Undefined.  Reading a property of Undefined throws a TypeError;*)
(* arithmetic on a non-number yields NaN and every comparison with NaN is  *)
(* false.                                                                  *)
(***************************************************************************)
EXTENDS Integers, Sequences, FiniteSets, TLC

VARIABLES
    previousState,   \* detectHandSeal.previousState, the detection memory
    hands,           \* argument of the latest detectHandSeal call
    result,          \* value returned by the latest call
    status           \* path the latest call took through detectHandSeal

\* The confirmation layer around the core (components/hand-seal-detector,
\* components/hand-seal-jutsu-matcher).  Time is counted in ticks of half a
\* second.
VARIABLES
    detectedSeals,         \* the displayed sequence (state of the matcher)
    lastDetectedSealRef,   \* last confirmed seal, "null" when forgotten
    detectionTimeoutRef,   \* the pending confirmation timer
    isStarted,             \* the camera is running
    now,                   \* current time
    event,                 \* the handler that ran last
    observed               \* what an observer of the frames has recorded

coreVars == <<previousState, hands, result, status>>

confirmVars ==
    <<detectedSeals, lastDetectedSealRef, detectionTimeoutRef, isStarted,
      now, event, observed>>

vars == <<previousState, hands, result, status, detectedSeals,
          lastDetectedSealRef, detectionTimeoutRef, isStarted, now, event,
          observed>>

---------------------------------------------------------------------------
(* JavaScript values *)

Undefined == [t |-> "undefined"]

Null == [t |-> "null"]

NaN == [t |-> "nan"]

Num(n) == [t |-> "number", v |-> n]

IsNum(a) == a.t = "number"

\* `value' used as a condition: undefined, null, NaN and 0 are falsy
Truthy(a) ==
    \/ a.t \in {"object", "array"}
    \/ a.t = "number" /\ a.v # 0

\* typeof value === 'number'   (NaN is of type number)
TypeofNumber(a) == a.t \in {"number", "nan"}

\* a - b
Sub(a, b) == IF IsNum(a) /\ IsNum(b) THEN Num(a.v - b.v) ELSE NaN

\* Math.abs(a - b)
AbsDiff(a, b) ==
    IF IsNum(a) /\ IsNum(b)
    THEN Num(IF a.v < b.v THEN b.v - a.v ELSE a.v - b.v)
    ELSE NaN

Lt(a, b) == IsNum(a) /\ IsNum(b) /\ a.v < b.v

Gt(a, b) == IsNum(a) /\ IsNum(b) /\ a.v > b.v

---------------------------------------------------------------------------
(* Landmarks.  Only the landmark indices the code reads are modelled. *)

LandmarkIdx == {0, 4, 5, 7, 8, 9, 11, 12, 15, 16, 20}

Pt(px, py) == [t |-> "object", x |-> Num(px), y |-> Num(py)]

Landmarks(f) == [t |-> "array", at |-> f]

\* hand[i]
At(hand, i) == hand.at[i]

---------------------------------------------------------------------------
(* Helper functions for geometric calculations *)

\* Squared distance; Math.sqrt is monotone, so comparisons are made on it.
calculateDistance(point1, point2) ==
    IF IsNum(point1.x) /\ IsNum(point2.x) /\ IsNum(point1.y) /\ IsNum(point2.y)
    THEN Num((point1.x.v - point2.x.v) * (point1.x.v - point2.x.v)
           + (point1.y.v - point2.y.v) * (point1.y.v - point2.y.v))
    ELSE NaN

\* calculateDistance(point1, point2) < threshold
arePointsClose(point1, point2, threshold) ==
    Lt(calculateDistance(point1, point2), Num(threshold * threshold))

isFingerUp(base, tip) == Lt(tip.y, Sub(base.y, Num(10)))

areFingersCurled(hand) ==
    LET indexCurled  == Gt(At(hand, 8).y, At(hand, 7).y)
        middleCurled == Gt(At(hand, 12).y, At(hand, 11).y)
        ringCurled   == Gt(At(hand, 16).y, At(hand, 15).y)
    IN  indexCurled /\ middleCurled /\ ringCurled

---------------------------------------------------------------------------
(* Single-hand analyzer *)

\* the validity gate of analyzeHandPosition
landmarksValid(hand) ==
    \A i \in {0, 4, 8, 12, 20} :
        /\ Truthy(At(hand, i))
        /\ TypeofNumber(At(hand, i).x)
        /\ TypeofNumber(At(hand, i).y)

\* The previous analysis as it hangs off `previousState'.  The object graph
\* is a chain; the model keeps the features of the first link and the
\* number of links behind it.
AsPrevious(analysis) ==
    [t                |-> "object",
     isVertical       |-> analysis.isVertical,
     isHorizontal     |-> analysis.isHorizontal,
     thumbPosition    |-> analysis.thumbPosition,
     fingerPositions  |-> analysis.fingerPositions,
     depth            |-> analysis.depth]

\* TypeError raised by analyzeHandPosition: once the fallback is not taken,
\* every landmark the function reads is dereferenced.
analyzeHandPositionThrows(hand, previousAnalysis) ==
    /\ ~(~landmarksValid(hand) /\ Truthy(previousAnalysis))
    /\ \E i \in LandmarkIdx : ~Truthy(At(hand, i))

\* variant: the fallback hands back the previous analysis as it is, without
\* linking it as previousState
fallbackAnalysis_noRelink(previousAnalysis) == previousAnalysis

\* variant: a fallback analysis is not carried a second time; the hand is
\* then reported without orientation
fallbackAnalysis_expires(previousAnalysis) ==
    IF previousAnalysis.depth >= 1
    THEN [previousAnalysis EXCEPT
            !.isVertical = FALSE,
            !.isHorizontal = FALSE,
            !.previousState = AsPrevious(previousAnalysis),
            !.depth = previousAnalysis.depth + 1]
    ELSE [previousAnalysis EXCEPT
            !.previousState = AsPrevious(previousAnalysis),
            !.depth = previousAnalysis.depth + 1]

\* lines 117-123: { ...previousAnalysis, previousState: previousAnalysis }
fallbackAnalysis(previousAnalysis) ==
    [previousAnalysis EXCEPT
        !.previousState = AsPrevious(previousAnalysis),
        !.depth = previousAnalysis.depth + 1]

analyzeHandPosition(hand, previousAnalysis) ==
    LET wrist     == At(hand, 0)
        thumbTip  == At(hand, 4)
        indexBase == At(hand, 5)
        indexTip  == At(hand, 8)
        middleTip == At(hand, 12)
        pinkyTip  == At(hand, 20)
    IN  IF ~landmarksValid(hand) /\ Truthy(previousAnalysis)
        THEN fallbackAnalysis(previousAnalysis)
        ELSE [t |-> "object",
              isVertical   |-> Lt(AbsDiff(indexTip.x, pinkyTip.x), Num(10)),
              isHorizontal |-> Lt(AbsDiff(indexTip.y, pinkyTip.y), Num(10)),
              thumbPosition |->
                 [isUp      |-> Lt(thumbTip.y, Sub(wrist.y, Num(10))),
                  isOutside |-> Lt(thumbTip.x, indexTip.x),
                  isOnTop   |-> Lt(thumbTip.y, indexTip.y)],
              fingerPositions |->
                 [areIndexMiddleTogether |-> arePointsClose(indexTip, middleTip, 5),
                  areAllFingersTogether  |->
                      /\ arePointsClose(indexTip, middleTip, 5)
                      /\ arePointsClose(middleTip, At(hand, 16), 5)
                      /\ arePointsClose(At(hand, 16), pinkyTip, 5),
                  areFingersStraight |->
                      /\ isFingerUp(indexBase, indexTip)
                      /\ isFingerUp(At(hand, 9), middleTip),
                  isIndexUp        |-> isFingerUp(indexBase, indexTip),
                  isMiddleUp       |-> isFingerUp(At(hand, 9), middleTip),
                  areFingersCurled |-> areFingersCurled(hand),
                  thumbOnPinky     |-> arePointsClose(thumbTip, pinkyTip, 8)],
              previousState |->
                  IF Truthy(previousAnalysis)
                  THEN AsPrevious(previousAnalysis) ELSE Undefined,
              depth |->
                  IF Truthy(previousAnalysis)
                  THEN previousAnalysis.depth + 1 ELSE 0]

---------------------------------------------------------------------------
(* Hand-pair relationship analyzer *)

\* hands.find(h => h.handedness === side)
Find(hs, side) ==
    IF \E i \in 1..Len(hs) : hs[i].handedness = side
    THEN hs[CHOOSE i \in 1..Len(hs) :
                /\ hs[i].handedness = side
                /\ \A j \in 1..(i - 1) : hs[j].handedness # side]
    ELSE Undefined

\* hands.find(...)?.landmarks
FindLandmarks(hs, side) ==
    IF Truthy(Find(hs, side)) THEN Find(hs, side).landmarks ELSE Undefined

\* Math.abs(distance - lastKnown) > 0.2 on squared distances d2 and k2:
\* with hi >= lo,  sqrt(hi) - sqrt(lo) > 0.2  iff  hi - lo - 0.04 > 0.4*sqrt(lo)
DistanceJump(d2, k2) ==
    /\ IsNum(d2) /\ IsNum(k2)
    /\ LET hi == IF d2.v >= k2.v THEN d2.v ELSE k2.v
           lo == IF d2.v >= k2.v THEN k2.v ELSE d2.v
           m  == hi - lo - 400
       IN  m > 0 /\ m * m > 1600 * lo

\* the Error of line 164 and the TypeErrors of the landmark reads
analyzeHandsRelationshipThrows(hs) ==
    LET left  == FindLandmarks(hs, "Left")
        right == FindLandmarks(hs, "Right")
    IN  \/ ~Truthy(left) \/ ~Truthy(right)
        \/ \E i \in {0, 4, 8} : ~Truthy(At(left, i)) \/ ~Truthy(At(right, i))

\* variant: without a previous relationship the last known distance is 0
possibleOcclusion_fromZero(distance, previousRelationship) ==
    DistanceJump(distance,
        IF Truthy(previousRelationship)
        THEN IF Truthy(previousRelationship.lastKnownDistance)
             THEN previousRelationship.lastKnownDistance
             ELSE distance
        ELSE Num(0))

\* lines 170-172: previousRelationship ?
\*     Math.abs(distance - (lastKnownDistance || distance)) > 0.2 : false
possibleOcclusion(distance, previousRelationship) ==
    IF Truthy(previousRelationship)
    THEN DistanceJump(distance,
             IF Truthy(previousRelationship.lastKnownDistance)
             THEN previousRelationship.lastKnownDistance
             ELSE distance)
    ELSE FALSE

analyzeHandsRelationship(hs, previousRelationship) ==
    LET left       == FindLandmarks(hs, "Left")
        right      == FindLandmarks(hs, "Right")
        leftWrist  == At(left, 0)
        rightWrist == At(right, 0)
        distance   == calculateDistance(leftWrist, rightWrist)
    IN  [t |-> "object",
         distance            |-> distance,
         verticalAlignment   |-> AbsDiff(leftWrist.y, rightWrist.y),
         horizontalAlignment |-> AbsDiff(leftWrist.x, rightWrist.x),
         isTriangleFormation |->
             /\ arePointsClose(At(left, 4), At(right, 4), 5)
             /\ Gt(AbsDiff(At(left, 8).y, At(right, 8).y), Num(10)),
         areHandsTogether        |-> Lt(distance, Num(30 * 30)),
         areThumbsTogether       |-> arePointsClose(At(left, 4), At(right, 4), 5),
         areIndexFingersTogether |-> arePointsClose(At(left, 8), At(right, 8), 5),
         possibleOcclusion       |->
             possibleOcclusion(distance, previousRelationship),
         lastKnownDistance       |-> distance]

---------------------------------------------------------------------------
(* Seal-specific detection functions with confidence scoring *)

W(cond, weight) == IF cond THEN weight ELSE 0

Max(a, b) == IF a >= b THEN a ELSE b

\* variant: the weights of the last two Bird terms exchanged
checkBirdSeal_weights(left, right, relationship) ==
    LET confidence ==
            W(relationship.isTriangleFormation, 40)
          + W(relationship.areThumbsTogether, 30)
          + W(left.thumbPosition.isOnTop /\ right.thumbPosition.isOnTop, 10)
          + W(relationship.areIndexFingersTogether, 20)
    IN  [matches |-> confidence > 80, confidence |-> confidence]

checkBirdSeal(left, right, relationship) ==
    LET confidence ==
            W(relationship.isTriangleFormation, 40)
          + W(relationship.areThumbsTogether, 30)
          + W(left.thumbPosition.isOnTop /\ right.thumbPosition.isOnTop, 20)
          + W(relationship.areIndexFingersTogether, 10)
    IN  [matches |-> confidence > 80, confidence |-> confidence]

checkDragonSeal(left, right, relationship) ==
    LET confidence ==
            W(relationship.areHandsTogether, 30)
          + W(left.thumbPosition.isOnTop, 30)
          + W(relationship.areIndexFingersTogether, 20)
          + W(left.fingerPositions.areAllFingersTogether
                /\ right.fingerPositions.areAllFingersTogether, 20)
    IN  [matches |-> confidence > 70, confidence |-> confidence]

checkTigerSeal(left, right, relationship) ==
    LET confidence ==
            W(left.thumbPosition.isUp /\ right.thumbPosition.isUp, 30)
          + W(left.fingerPositions.isIndexUp /\ right.fingerPositions.isIndexUp, 20)
          + W(relationship.areIndexFingersTogether, 20)
          + W(relationship.areHandsTogether, 20)
          + W(Lt(relationship.verticalAlignment, Num(10)), 10)
    IN  [matches |-> confidence > 90, confidence |-> confidence]

None == [seal |-> "null", confidence |-> 0]

detectTriangleFormationSeals(left, right, relationship) ==
    LET birdConfidence == checkBirdSeal(left, right, relationship)
    IN  IF birdConfidence.matches
        THEN [seal |-> "Bird", confidence |-> birdConfidence.confidence]
        ELSE IF /\ relationship.areIndexFingersTogether
                /\ left.fingerPositions.areFingersStraight
                /\ right.fingerPositions.areFingersStraight
        THEN [seal |-> "Horse", confidence |-> 85]
        ELSE None

checkBoarSeal(left, right, relationship) ==
    LET confidence ==
            W(left.isVertical /\ right.isVertical, 30)
          + W(relationship.areHandsTogether, 20)
          + W(left.fingerPositions.areAllFingersTogether
                /\ right.fingerPositions.areAllFingersTogether, 30)
          + W(relationship.areThumbsTogether, 20)
    IN  [matches |-> confidence > 80, confidence |-> confidence]

checkHareSeal(left, right, relationship) ==
    LET confidence ==
            W(left.isHorizontal, 30)
          + W(right.fingerPositions.areFingersStraight, 30)
          + W(relationship.areHandsTogether, 20)
          + W(left.thumbPosition.isOnTop, 20)
    IN  [matches |-> confidence > 80, confidence |-> confidence]

\* x.previousState?.fingerPositions.thumbOnPinky
PrevThumbOnPinky(analysis) ==
    /\ Truthy(analysis.previousState)
    /\ analysis.previousState.fingerPositions.thumbOnPinky

\* variant: the rescue lifts the confidence above the threshold
checkMonkeySeal_rescueMatches(left, right, relationship) ==
    LET sum ==
            W(left.fingerPositions.thumbOnPinky
                /\ right.fingerPositions.thumbOnPinky, 40)
          + W(relationship.areHandsTogether, 30)
          + W(left.fingerPositions.areAllFingersTogether
                /\ right.fingerPositions.areAllFingersTogether, 30)
        confidence ==
            IF /\ relationship.possibleOcclusion
               /\ PrevThumbOnPinky(left)
               /\ PrevThumbOnPinky(right)
            THEN Max(sum, 75) ELSE sum
    IN  [matches |-> confidence > 70, confidence |-> confidence]

\* variant: no occlusion rescue
checkMonkeySeal_noRescue(left, right, relationship) ==
    LET confidence ==
            W(left.fingerPositions.thumbOnPinky
                /\ right.fingerPositions.thumbOnPinky, 40)
          + W(relationship.areHandsTogether, 30)
          + W(left.fingerPositions.areAllFingersTogether
                /\ right.fingerPositions.areAllFingersTogether, 30)
    IN  [matches |-> confidence > 70, confidence |-> confidence]

\* variant: a confidence equal to the threshold counts as a match
checkMonkeySeal_atThreshold(left, right, relationship) ==
    LET sum ==
            W(left.fingerPositions.thumbOnPinky
                /\ right.fingerPositions.thumbOnPinky, 40)
          + W(relationship.areHandsTogether, 30)
          + W(left.fingerPositions.areAllFingersTogether
                /\ right.fingerPositions.areAllFingersTogether, 30)
        confidence ==
            IF /\ relationship.possibleOcclusion
               /\ PrevThumbOnPinky(left)
               /\ PrevThumbOnPinky(right)
            THEN Max(sum, 70) ELSE sum
    IN  [matches |-> confidence >= 70, confidence |-> confidence]

checkMonkeySeal(left, right, relationship) ==
    LET sum ==
            W(left.fingerPositions.thumbOnPinky
                /\ right.fingerPositions.thumbOnPinky, 40)
          + W(relationship.areHandsTogether, 30)
          + W(left.fingerPositions.areAllFingersTogether
                /\ right.fingerPositions.areAllFingersTogether, 30)
        confidence ==
            IF /\ relationship.possibleOcclusion
               /\ PrevThumbOnPinky(left)
               /\ PrevThumbOnPinky(right)
            THEN Max(sum, 70) ELSE sum
    IN  [matches |-> confidence > 70, confidence |-> confidence]

checkRatSeal(left, right, relationship) ==
    LET confidence ==
            W(left.isVertical, 15)
          + W(left.fingerPositions.areFingersCurled, 15)
          + W(left.fingerPositions.areAllFingersTogether
                \/ left.fingerPositions.thumbOnPinky, 15)
          + W(right.isVertical /\ ~right.isHorizontal, 15)
          + W(right.fingerPositions.areFingersCurled, 15)
          + W(right.fingerPositions.areAllFingersTogether, 15)
          + W(right.thumbPosition.isOutside /\ right.thumbPosition.isUp, 15)
          + W(relationship.areHandsTogether, 10)
          + W(Lt(relationship.distance, Num(30 * 30)), 10)
          + W(Lt(relationship.verticalAlignment, Num(30)), 10)
          + W(Lt(relationship.horizontalAlignment, Num(15)), 10)
          - W(left.fingerPositions.areFingersStraight
                \/ right.fingerPositions.areFingersStraight, 30)
          - W(~left.isVertical \/ ~right.isVertical, 30)
    IN  [matches |-> confidence > 75, confidence |-> Max(0, confidence)]

checkSerpentSeal(left, right, relationship) ==
    LET confidence ==
            W(left.fingerPositions.areAllFingersTogether
                /\ right.fingerPositions.areAllFingersTogether, 30)
          + W(relationship.areHandsTogether, 20)
          + W(Lt(relationship.verticalAlignment, Num(10)), 20)
          + W(left.isVertical /\ right.isVertical, 20)
          + W(~left.thumbPosition.isUp /\ ~right.thumbPosition.isUp, 10)
    IN  [matches |-> confidence > 85, confidence |-> confidence]

checkRamSeal(left, right, relationship) ==
    LET confidence ==
            W(left.isVertical /\ right.isVertical, 20)
          + W(left.thumbPosition.isOnTop, 20)
          + W(relationship.areHandsTogether, 20)
          + W(left.fingerPositions.areAllFingersTogether
                /\ right.fingerPositions.areAllFingersTogether, 20)
          + W(relationship.areIndexFingersTogether, 20)
    IN  [matches |-> confidence > 80, confidence |-> confidence]

---------------------------------------------------------------------------
(* Scorers of the earlier scoring revision that carry a rescue clause.   *)
(* Its checkMonkeySeal and its analyzers are the same as above.           *)

\* right.previousState?.fingerPositions.isIndexUp && ...isMiddleUp
PrevIndexMiddleUp(analysis) ==
    /\ Truthy(analysis.previousState)
    /\ analysis.previousState.fingerPositions.isIndexUp
    /\ analysis.previousState.fingerPositions.isMiddleUp

\* analysis.previousState?.fingerPositions.areAllFingersTogether
PrevAllFingersTogether(analysis) ==
    /\ Truthy(analysis.previousState)
    /\ analysis.previousState.fingerPositions.areAllFingersTogether

checkRatSealV1(left, right, relationship) ==
    LET sum ==
            W(right.fingerPositions.isIndexUp
                /\ right.fingerPositions.isMiddleUp, 30)
          + W(relationship.areHandsTogether, 30)
          + W(left.thumbPosition.isOutside, 20)
          + W(left.isVertical /\ right.isVertical, 20)
        confidence ==
            IF relationship.possibleOcclusion /\ PrevIndexMiddleUp(right)
            THEN Max(sum, 70) ELSE sum
    IN  [matches |-> confidence > 70, confidence |-> confidence]

checkSerpentSealV1(left, right, relationship) ==
    LET sum ==
            W(left.fingerPositions.areAllFingersTogether
                /\ right.fingerPositions.areAllFingersTogether, 40)
          + W(relationship.areHandsTogether, 30)
          + W(left.isVertical /\ right.isVertical, 30)
        confidence ==
            IF /\ relationship.possibleOcclusion
               /\ relationship.areHandsTogether
               /\ PrevAllFingersTogether(left)
               /\ PrevAllFingersTogether(right)
            THEN Max(sum, 70) ELSE sum
    IN  [matches |-> confidence > 70, confidence |-> confidence]

---------------------------------------------------------------------------
(* Decision tree *)

\* variant: Dragon is tried before Ram
detectVerticalSeals_dragonFirst(left, right, relationship) ==
    LET boarConfidence    == checkBoarSeal(left, right, relationship)
        serpentConfidence == checkSerpentSeal(left, right, relationship)
        ramConfidence     == checkRamSeal(left, right, relationship)
        dragonConfidence  == checkDragonSeal(left, right, relationship)
        tigerConfidence   == checkTigerSeal(left, right, relationship)
    IN  IF boarConfidence.matches
        THEN [seal |-> "Boar", confidence |-> boarConfidence.confidence]
        ELSE IF serpentConfidence.matches
        THEN [seal |-> "Serpent", confidence |-> serpentConfidence.confidence]
        ELSE IF dragonConfidence.matches
        THEN [seal |-> "Dragon", confidence |-> dragonConfidence.confidence]
        ELSE IF ramConfidence.matches
        THEN [seal |-> "Ram", confidence |-> ramConfidence.confidence]
        ELSE IF tigerConfidence.matches
        THEN [seal |-> "Tiger", confidence |-> tigerConfidence.confidence]
        ELSE None

\* variant: the Serpent branch emits the alias Snake
detectVerticalSeals_snake(left, right, relationship) ==
    LET boarConfidence    == checkBoarSeal(left, right, relationship)
        serpentConfidence == checkSerpentSeal(left, right, relationship)
        ramConfidence     == checkRamSeal(left, right, relationship)
        dragonConfidence  == checkDragonSeal(left, right, relationship)
        tigerConfidence   == checkTigerSeal(left, right, relationship)
    IN  IF boarConfidence.matches
        THEN [seal |-> "Boar", confidence |-> boarConfidence.confidence]
        ELSE IF serpentConfidence.matches
        THEN [seal |-> "Snake", confidence |-> serpentConfidence.confidence]
        ELSE IF ramConfidence.matches
        THEN [seal |-> "Ram", confidence |-> ramConfidence.confidence]
        ELSE IF dragonConfidence.matches
        THEN [seal |-> "Dragon", confidence |-> dragonConfidence.confidence]
        ELSE IF tigerConfidence.matches
        THEN [seal |-> "Tiger", confidence |-> tigerConfidence.confidence]
        ELSE None

detectVerticalSeals(left, right, relationship) ==
    LET boarConfidence    == checkBoarSeal(left, right, relationship)
        serpentConfidence == checkSerpentSeal(left, right, relationship)
        ramConfidence     == checkRamSeal(left, right, relationship)
        dragonConfidence  == checkDragonSeal(left, right, relationship)
        tigerConfidence   == checkTigerSeal(left, right, relationship)
    IN  IF boarConfidence.matches
        THEN [seal |-> "Boar", confidence |-> boarConfidence.confidence]
        ELSE IF serpentConfidence.matches
        THEN [seal |-> "Serpent", confidence |-> serpentConfidence.confidence]
        ELSE IF ramConfidence.matches
        THEN [seal |-> "Ram", confidence |-> ramConfidence.confidence]
        ELSE IF dragonConfidence.matches
        THEN [seal |-> "Dragon", confidence |-> dragonConfidence.confidence]
        ELSE IF tigerConfidence.matches
        THEN [seal |-> "Tiger", confidence |-> tigerConfidence.confidence]
        ELSE None

detectSpecialFormationSeals(left, right, relationship) ==
    LET monkeyConfidence == checkMonkeySeal(left, right, relationship)
        ratConfidence    == checkRatSeal(left, right, relationship)
        hareConfidence   == checkHareSeal(left, right, relationship)
    IN  IF monkeyConfidence.matches
        THEN [seal |-> "Monkey", confidence |-> monkeyConfidence.confidence]
        ELSE IF ratConfidence.matches
        THEN [seal |-> "Rat", confidence |-> ratConfidence.confidence]
        ELSE IF hareConfidence.matches
        THEN [seal |-> "Hare", confidence |-> hareConfidence.confidence]
        ELSE None

detectMixedOrientationSeals(left, right, relationship) ==
    LET isDogSeal ==
            /\ left.isHorizontal
            /\ ~left.isVertical
            /\ left.fingerPositions.areAllFingersTogether
            /\ ~left.fingerPositions.areFingersCurled
            /\ right.fingerPositions.areFingersCurled
            /\ left.thumbPosition.isOnTop
            /\ relationship.areHandsTogether
    IN  IF isDogSeal
        THEN [seal |-> "Dog", confidence |-> 90]
        ELSE IF right.isHorizontal /\ left.isVertical
        THEN [seal |-> "Ox", confidence |-> 90]
        ELSE None

\* variant: the special-formation bucket is consulted before the triangle
\* bucket
DecisionTree_specialFirst(leftAnalysis, rightAnalysis, relationship) ==
    LET triangle == detectTriangleFormationSeals(leftAnalysis, rightAnalysis, relationship)
        special  == detectSpecialFormationSeals(leftAnalysis, rightAnalysis, relationship)
        vertical == detectVerticalSeals(leftAnalysis, rightAnalysis, relationship)
        mixed    == detectMixedOrientationSeals(leftAnalysis, rightAnalysis, relationship)
    IN  IF special.confidence > 70
        THEN special
        ELSE IF relationship.isTriangleFormation /\ triangle.confidence > 80
        THEN triangle
        ELSE IF /\ leftAnalysis.isVertical /\ rightAnalysis.isVertical
                /\ vertical.confidence > 80
        THEN vertical
        ELSE IF /\ leftAnalysis.isVertical # rightAnalysis.isVertical
                /\ mixed.confidence > 80
        THEN mixed
        ELSE None

\* variant: the triangle bucket is consulted whatever the relationship
DecisionTree_triangleUngated(leftAnalysis, rightAnalysis, relationship) ==
    LET triangle == detectTriangleFormationSeals(leftAnalysis, rightAnalysis, relationship)
        special  == detectSpecialFormationSeals(leftAnalysis, rightAnalysis, relationship)
        vertical == detectVerticalSeals(leftAnalysis, rightAnalysis, relationship)
        mixed    == detectMixedOrientationSeals(leftAnalysis, rightAnalysis, relationship)
    IN  IF triangle.confidence > 80
        THEN triangle
        ELSE IF special.confidence > 70
        THEN special
        ELSE IF /\ leftAnalysis.isVertical /\ rightAnalysis.isVertical
                /\ vertical.confidence > 80
        THEN vertical
        ELSE IF /\ leftAnalysis.isVertical # rightAnalysis.isVertical
                /\ mixed.confidence > 80
        THEN mixed
        ELSE None

\* variant: the vertical-alignment bucket is held to the bar of the
\* special-formation bucket
DecisionTree_verticalLowBar(leftAnalysis, rightAnalysis, relationship) ==
    LET triangle == detectTriangleFormationSeals(leftAnalysis, rightAnalysis, relationship)
        special  == detectSpecialFormationSeals(leftAnalysis, rightAnalysis, relationship)
        vertical == detectVerticalSeals(leftAnalysis, rightAnalysis, relationship)
        mixed    == detectMixedOrientationSeals(leftAnalysis, rightAnalysis, relationship)
    IN  IF relationship.isTriangleFormation /\ triangle.confidence > 80
        THEN triangle
        ELSE IF special.confidence > 70
        THEN special
        ELSE IF /\ leftAnalysis.isVertical /\ rightAnalysis.isVertical
                /\ vertical.confidence > 70
        THEN vertical
        ELSE IF /\ leftAnalysis.isVertical # rightAnalysis.isVertical
                /\ mixed.confidence > 80
        THEN mixed
        ELSE None

\* variant: the vertical-alignment bucket is consulted whatever the
\* orientation of the hands
DecisionTree_verticalUngated(leftAnalysis, rightAnalysis, relationship) ==
    LET triangle == detectTriangleFormationSeals(leftAnalysis, rightAnalysis, relationship)
        special  == detectSpecialFormationSeals(leftAnalysis, rightAnalysis, relationship)
        vertical == detectVerticalSeals(leftAnalysis, rightAnalysis, relationship)
        mixed    == detectMixedOrientationSeals(leftAnalysis, rightAnalysis, relationship)
    IN  IF relationship.isTriangleFormation /\ triangle.confidence > 80
        THEN triangle
        ELSE IF special.confidence > 70
        THEN special
        ELSE IF vertical.confidence > 80
        THEN vertical
        ELSE IF /\ leftAnalysis.isVertical # rightAnalysis.isVertical
                /\ mixed.confidence > 80
        THEN mixed
        ELSE None

\* lines 645-669 of detectHandSeal: the fixed evaluation order with early exit
DecisionTree(leftAnalysis, rightAnalysis, relationship) ==
    LET triangle == detectTriangleFormationSeals(leftAnalysis, rightAnalysis, relationship)
        special  == detectSpecialFormationSeals(leftAnalysis, rightAnalysis, relationship)
        vertical == detectVerticalSeals(leftAnalysis, rightAnalysis, relationship)
        mixed    == detectMixedOrientationSeals(leftAnalysis, rightAnalysis, relationship)
    IN  IF relationship.isTriangleFormation /\ triangle.confidence > 80
        THEN triangle
        ELSE IF special.confidence > 70
        THEN special
        ELSE IF /\ leftAnalysis.isVertical /\ rightAnalysis.isVertical
                /\ vertical.confidence > 80
        THEN vertical
        ELSE IF /\ leftAnalysis.isVertical # rightAnalysis.isVertical
                /\ mixed.confidence > 80
        THEN mixed
        ELSE None

---------------------------------------------------------------------------
(* Public entry point *)

\* detectHandSeal.previousState || { leftAnalysis: undefined, ... }
InitializedState(state) ==
    IF Truthy(state) THEN state
    ELSE [t |-> "object", leftAnalysis |-> Undefined,
          rightAnalysis |-> Undefined, relationship |-> Undefined]

\* variant: the memory is written after the decision tree, and only when
\* it found a seal
StoreAndClassify_forgetOnNone(leftAnalysis, rightAnalysis, relationship) ==
    LET value == DecisionTree(leftAnalysis, rightAnalysis, relationship)
    IN  [threw  |-> FALSE,
         status |-> "classified",
         value  |-> value,
         state  |-> [t |-> "object",
                     leftAnalysis  |->
                         IF value = None THEN Undefined ELSE leftAnalysis,
                     rightAnalysis |->
                         IF value = None THEN Undefined ELSE rightAnalysis,
                     relationship  |->
                         IF value = None THEN Undefined ELSE relationship]]

\* lines 637-669: store the current state, then run the decision tree
StoreAndClassify(leftAnalysis, rightAnalysis, relationship) ==
    [threw  |-> FALSE,
     status |-> "classified",
     value  |-> DecisionTree(leftAnalysis, rightAnalysis, relationship),
     state  |-> [t |-> "object",
                 leftAnalysis  |-> leftAnalysis,
                 rightAnalysis |-> rightAnalysis,
                 relationship  |-> relationship]]

\* lines 598-643, given the two entries found and the initialised memory
Analyze(leftHand, rightHand, mem, state) ==
    IF \/ ~Truthy(leftHand)  \/ ~Truthy(leftHand.landmarks)
       \/ ~Truthy(rightHand) \/ ~Truthy(rightHand.landmarks)
    THEN [threw |-> FALSE, status |-> "missingHand",
          value |-> None, state |-> state]
    ELSE IF \/ analyzeHandPositionThrows(leftHand.landmarks, mem.leftAnalysis)
            \/ analyzeHandPositionThrows(rightHand.landmarks, mem.rightAnalysis)
            \/ analyzeHandsRelationshipThrows(<<leftHand, rightHand>>)
    THEN [threw |-> TRUE, status |-> "threw",
          value |-> None, state |-> mem]
    ELSE CHOOSE out \in
           { StoreAndClassify(leftAnalysis, rightAnalysis, relationship) :
               leftAnalysis \in
                 {analyzeHandPosition(leftHand.landmarks, mem.leftAnalysis)},
               rightAnalysis \in
                 {analyzeHandPosition(rightHand.landmarks, mem.rightAnalysis)},
               relationship \in
                 {analyzeHandsRelationship(<<leftHand, rightHand>>,
                                           mem.relationship)} } : TRUE

\* What the body of the try block does: the value it returns or the fact
\* that it threw, and the detection memory it leaves behind.  (Intermediate
\* results are bound as values, each computed once per call.)
TryBlock(hs, state) ==
    CHOOSE out \in
      { Analyze(leftHand, rightHand, mem, state) :
          leftHand  \in {Find(hs, "Left")},
          rightHand \in {Find(hs, "Right")},
          mem       \in {InitializedState(state)} } : TRUE

\* variant: the catch clause rethrows
Catch_rethrow(attempt) == attempt

\* catch (error) { console.error(...); return { seal: null, confidence: 0 } }
Catch(attempt) ==
    IF attempt.threw
    THEN [attempt EXCEPT !.threw = FALSE, !.status = "caught", !.value = None]
    ELSE attempt

\* variant: the entry-count check discards the detection memory
detectHandSeal_forgetOnWrongCount(hs, state) ==
    IF Len(hs) # 2
    THEN [threw |-> FALSE, status |-> "wrongCount", value |-> None, state |-> Null]
    ELSE Catch(TryBlock(hs, state))

\* variant: the entry-count check lets collections of three or more through
detectHandSeal_atLeastTwo(hs, state) ==
    IF Len(hs) < 2
    THEN [threw |-> FALSE, status |-> "wrongCount", value |-> None, state |-> state]
    ELSE Catch(TryBlock(hs, state))

detectHandSeal(hs, state) ==
    IF Len(hs) # 2
    THEN [threw |-> FALSE, status |-> "wrongCount", value |-> None, state |-> state]
    ELSE Catch(TryBlock(hs, state))

---------------------------------------------------------------------------
(* Input frames.  A hand is laid out from its wrist w, thumb tip th and    *)
(* index tip ix (pairs <<x, y>> in hundredths), the arrangement of the     *)
(* other finger tips relative to the index tip, and the bend of the        *)
(* fingers (position of the joints relative to the tips).                  *)

\* offsets of the middle, ring and pinky tips from the index tip
TipOffsets(lay) ==
    CASE lay = "stack" -> <<<<0, 4>>, <<0, 8>>, <<0, 12>>>>   \* together, upright
      [] lay = "tight" -> <<<<3, 0>>, <<6, 0>>, <<9, 0>>>>    \* together, compact
      [] lay = "flat"  -> <<<<4, 0>>, <<8, 0>>, <<12, 0>>>>   \* together, level
      [] lay = "open"  -> <<<<0, 6>>, <<0, 12>>, <<0, 18>>>>  \* apart, upright

\* <<dy of the joint below a tip, dy of the base of a finger>>
Bend(b) ==
    CASE b = "relaxed"  -> <<3, 8>>
      [] b = "curled"   -> <<-3, -8>>
      [] b = "straight" -> <<3, 15>>

MkHand(w, th, ix, lay, b) ==
    LET o  == TipOffsets(lay)
        j  == Bend(b)[1]
        k  == Bend(b)[2]
        mx == ix[1] + o[1][1]
        my == ix[2] + o[1][2]
        rx == ix[1] + o[2][1]
        ry == ix[2] + o[2][2]
    IN  Landmarks(
          [i \in LandmarkIdx |->
             CASE i = 0  -> Pt(w[1], w[2])
               [] i = 4  -> Pt(th[1], th[2])
               [] i = 5  -> Pt(ix[1], ix[2] + k)
               [] i = 7  -> Pt(ix[1], ix[2] + j)
               [] i = 8  -> Pt(ix[1], ix[2])
               [] i = 9  -> Pt(mx, my + k)
               [] i = 11 -> Pt(mx, my + j)
               [] i = 12 -> Pt(mx, my)
               [] i = 15 -> Pt(rx, ry + j)
               [] i = 16 -> Pt(rx, ry)
               [] i = 20 -> Pt(ix[1] + o[3][1], ix[2] + o[3][2])])

\* the landmark source dropped landmark i
Drop(hand, i) == [hand EXCEPT !.at[i] = Undefined]

\* landmark i arrived without its x coordinate
Blank(hand, i) == [hand EXCEPT !.at[i].x = Undefined]

LeftPoses ==
    { <<<<40, 80>>, <<50, 40>>, <<50, 50>>, "stack", "relaxed">>,
      <<<<40, 80>>, <<52, 60>>, <<50, 50>>, "stack", "relaxed">>,
      <<<<40, 80>>, <<50, 55>>, <<50, 50>>, "open",  "straight">>,
      <<<<40, 80>>, <<50, 40>>, <<50, 50>>, "flat",  "relaxed">> }

RightPoses ==
    { <<<<50, 80>>, <<52, 40>>, <<52, 65>>, "stack", "relaxed">>,
      <<<<50, 80>>, <<54, 60>>, <<52, 50>>, "stack", "relaxed">>,
      <<<<50, 80>>, <<55, 55>>, <<52, 50>>, "open",  "straight">>,
      <<<<50, 80>>, <<52, 40>>, <<52, 50>>, "stack", "curled">>,
      <<<<90, 80>>, <<60, 40>>, <<52, 50>>, "open",  "relaxed">> }

\* right hands met only with the first left pose: wrists coinciding, and
\* wrists 0.2 apart sideways or 0.15 apart both ways
RightPosesAside ==
    { <<<<40, 80>>, <<52, 40>>, <<52, 50>>, "flat",  "relaxed">>,
      <<<<60, 80>>, <<52, 40>>, <<52, 50>>, "tight", "relaxed">>,
      <<<<60, 80>>, <<60, 40>>, <<52, 50>>, "tight", "relaxed">>,
      <<<<55, 95>>, <<60, 40>>, <<52, 50>>, "tight", "relaxed">> }

Hands(poses) == { MkHand(p[1], p[2], p[3], p[4], p[5]) : p \in poses }

Entry(side, landmarks) ==
    [t |-> "object", handedness |-> side, landmarks |-> landmarks]

LeftBase == MkHand(<<40, 80>>, <<50, 40>>, <<50, 50>>, "stack", "relaxed")

RightBase == MkHand(<<50, 80>>, <<52, 40>>, <<52, 65>>, "stack", "relaxed")

RightFar == MkHand(<<90, 80>>, <<60, 40>>, <<52, 50>>, "open", "relaxed")

\* landmarks: []
EmptyLandmarks == Landmarks([i \in LandmarkIdx |-> Undefined])

\* frames of one Left and one Right hand, all landmarks delivered; the
\* landmark source lists the hands in either order
\* both hands upright with raised, spread fingers, index tips touching; the
\* left thumb tip lies above the left index tip
LeftThumbOverIndex ==
    MkHand(<<40, 80>>, <<50, 45>>, <<50, 50>>, "open", "straight")

RightUpright == MkHand(<<50, 80>>, <<55, 55>>, <<52, 50>>, "open", "straight")

CleanFrames ==
    { <<Entry("Left", l), Entry("Right", r)>> :
          l \in Hands(LeftPoses), r \in Hands(RightPoses) }
    \cup { <<Entry("Left", LeftBase), Entry("Right", r)>> :
          r \in Hands(RightPosesAside) }
    \cup { <<Entry("Right", RightBase), Entry("Left", LeftBase)>>,
           <<Entry("Left", LeftThumbOverIndex), Entry("Right", RightUpright)>> }

\* hands with a lost or incomplete landmark: wrist, pinky tip (critical),
\* ring tip (not critical)
DegradedLeft ==
    { Drop(LeftBase, 0), Blank(LeftBase, 0), Drop(LeftBase, 20), Drop(LeftBase, 16) }

DegradedRight == { Drop(RightBase, 4), Blank(RightBase, 12), EmptyLandmarks }

DegradedFrames ==
    { <<Entry("Left", l), Entry("Right", RightBase)>> : l \in DegradedLeft }
    \cup { <<Entry("Left", l), Entry("Right", RightFar)>> :
             l \in {Blank(LeftBase, 0), Drop(LeftBase, 20)} }
    \cup { <<Entry("Left", LeftBase), Entry("Right", r)>> : r \in DegradedRight }

\* collections that are not one Left and one Right hand with landmarks
MalformedCollections ==
    { <<>>,
      <<Entry("Left", LeftBase)>>,
      <<Entry("Left", LeftBase), Entry("Right", RightBase), Entry("Left", LeftBase)>>,
      <<Entry("Left", LeftBase), Entry("Left", LeftBase)>>,
      <<Entry("Right", RightBase), Entry("Right", RightFar)>>,
      <<Entry("Left", LeftBase), Entry("Right", Undefined)>>,
      <<Entry("Left", Undefined), Entry("Right", RightFar)>> }

-----------------------------------------------
(* The detection core as a state machine: one step per delivered frame. *)

\* longest chain of previousState links the model follows
MaxDepth == 2

Depth(state) ==
    IF ~Truthy(state) THEN 0
    ELSE Max(IF Truthy(state.leftAnalysis) THEN state.leftAnalysis.depth ELSE 0,
             IF Truthy(state.rightAnalysis) THEN state.rightAnalysis.depth ELSE 0)

\* no confirmation timer pending
NoTimeout == [active |-> FALSE, seal |-> "null", confidence |-> 0, due |-> 0]

NothingObserved ==
    [heldSeal |-> "null", heldSince |-> 0, heldAt |-> 0,
     qSeal |-> "null", qConfidence |-> 0, qAt |-> 0, resetAt |-> 0]

\* the components after mounting: empty sequence, camera stopped
Mounted ==
    /\ detectedSeals = <<>>
    /\ lastDetectedSealRef = "null"
    /\ detectionTimeoutRef = NoTimeout
    /\ isStarted = FALSE
    /\ now = 0
    /\ event = "mounted"
    /\ observed = NothingObserved

Init ==
    /\ previousState = Null
    /\ hands = <<>>
    /\ result = None
    /\ status = "idle"
    /\ Mounted

Call(hs) ==
    /\ Depth(previousState) < MaxDepth
    /\ \E out \in {detectHandSeal(hs, previousState)} :
        /\ hands' = hs
        /\ previousState' = out.state
        /\ result' = out.value
        /\ status' = IF out.threw THEN "raised" ELSE out.status
        /\ UNCHANGED confirmVars

DetectFrame == \E hs \in CleanFrames : Call(hs)

DetectDegraded == \E hs \in DegradedFrames : Call(hs)

DetectMalformed == \E hs \in MalformedCollections : Call(hs)

Next == DetectFrame \/ DetectDegraded \/ DetectMalformed

Spec == Init /\ [][Next]_vars

---------------------------------------------------------------------------
(* The confirmation layer as a state machine: camera frames, the          *)
(* confirmation timer and the user's commands.  A re-render that changes  *)
(* a dependency of the detector's effect runs the effect's cleanup; for a *)
(* click it is flushed before the click handler's task ends, so it is     *)
(* part of the command's step.                                            *)

\* const [confidenceThreshold] = useState(0.8)
confidenceThreshold == 80

\* setTimeout(..., 1000), in ticks
ConfirmDelay == 2

\* last tick the model follows
MaxTime == 6

\* currentSeals as the onResults handler sees it: the handler is registered
\* once, in the first run of the effect, and keeps the props of that render
registeredSeals == <<>>

\* results detectHandSeal hands to the layer; a Rat sum of 0.8 can come out
\* as 0.7999999999999999
DetectionResults ==
    { None,
      [seal |-> "Bird", confidence |-> 90],
      [seal |-> "Rat", confidence |-> 115],
      [seal |-> "Rat", confidence |-> 79] }

\* variant: the last confirmed seal is not looked at
Qualifies_repeats(detectionResult) ==
    /\ detectionResult.seal # "null"
    /\ detectionResult.confidence >= confidenceThreshold

\* variant: the confidence of the result is not looked at
Qualifies_anyConfidence(detectionResult) ==
    /\ detectionResult.seal # "null"
    /\ detectionResult.seal # lastDetectedSealRef

\* lines 102-104: a seal, sufficient confidence, not the last confirmed seal
Qualifies(detectionResult) ==
    /\ detectionResult.seal # "null"
    /\ detectionResult.confidence >= confidenceThreshold
    /\ detectionResult.seal # lastDetectedSealRef

\* clearTimeout(detectionTimeoutRef.current)
clearTimeout(timeout) == NoTimeout

\* variant: the effect's cleanup leaves the pending timer alone
effectCleanup_keepsTimeout(timeout) == timeout

\* lines 142-150: cleanup of the detector's effect
effectCleanup(timeout) == clearTimeout(timeout)

\* the observer's record after a frame reporting detectionResult
ObserveFrame(detectionResult) ==
    LET strong ==
            /\ detectionResult.seal # "null"
            /\ detectionResult.confidence >= confidenceThreshold
        continuing ==
            /\ strong
            /\ detectionResult.seal = observed.heldSeal
            /\ now - observed.heldAt < ConfirmDelay
        fresh == strong /\ detectionResult.seal # lastDetectedSealRef
    IN  [observed EXCEPT
            !.heldSeal  = IF strong THEN detectionResult.seal ELSE "null",
            !.heldSince = IF continuing THEN @ ELSE now,
            !.heldAt    = now,
            !.qSeal       = IF fresh THEN detectionResult.seal ELSE @,
            !.qConfidence = IF fresh THEN detectionResult.confidence ELSE @,
            !.qAt         = IF fresh THEN now ELSE @]

\* the observer's record after a user command
ObserveReset ==
    [observed EXCEPT !.heldSeal = "null", !.heldSince = now, !.heldAt = now,
                     !.resetAt = now]

\* lines 86-118: the onResults handler on a frame with a Left and a Right hand
onResults(detectionResult) ==
    /\ isStarted
    /\ result' = detectionResult
    /\ detectionTimeoutRef' =
           IF Qualifies(detectionResult)
           THEN [active |-> TRUE, seal |-> detectionResult.seal,
                 confidence |-> detectionResult.confidence,
                 due |-> now + ConfirmDelay]
           ELSE detectionTimeoutRef
    /\ observed' = ObserveFrame(detectionResult)
    /\ event' = "results"
    /\ UNCHANGED <<previousState, hands, status, detectedSeals,
                   lastDetectedSealRef, isStarted, now>>

Frame == \E detectionResult \in DetectionResults : onResults(detectionResult)

\* lines 110-117: the timer callback, and handleHandSealDetected of the matcher
TimeoutFires ==
    /\ detectionTimeoutRef.active
    /\ now >= detectionTimeoutRef.due
    /\ detectedSeals' = Append(registeredSeals, detectionTimeoutRef.seal)
    /\ lastDetectedSealRef' = detectionTimeoutRef.seal
    /\ detectionTimeoutRef' = NoTimeout
    /\ event' = "confirmed"
    /\ UNCHANGED <<coreVars, isStarted, now, observed>>

\* time passes; a timer that is due fires first
Tick ==
    /\ now < MaxTime
    /\ ~(detectionTimeoutRef.active /\ now >= detectionTimeoutRef.due)
    /\ now' = now + 1
    /\ event' = "tick"
    /\ UNCHANGED <<coreVars, detectedSeals, lastDetectedSealRef,
                   detectionTimeoutRef, isStarted, observed>>

\* lines 170-183: Start Camera / Stop Camera
handleStartStop ==
    /\ IF isStarted
       THEN /\ detectedSeals' = <<>>
            /\ lastDetectedSealRef' = "null"
            /\ detectionTimeoutRef' =
                   effectCleanup(clearTimeout(detectionTimeoutRef))
            /\ observed' = ObserveReset
       ELSE /\ detectionTimeoutRef' = effectCleanup(detectionTimeoutRef)
            /\ UNCHANGED <<detectedSeals, lastDetectedSealRef, observed>>
    /\ isStarted' = ~isStarted
    /\ event' = "startStop"
    /\ UNCHANGED <<coreVars, now>>

\* lines 185-188: Clear Seals (the button is shown for a non-empty sequence),
\* then the cleanup of the effect, whose dependency currentSeals changed
handleClearSeals ==
    /\ detectedSeals # <<>>
    /\ detectedSeals' = <<>>
    /\ lastDetectedSealRef' = "null"
    /\ detectionTimeoutRef' = effectCleanup(detectionTimeoutRef)
    /\ observed' = ObserveReset
    /\ event' = "clearSeals"
    /\ UNCHANGED <<coreVars, isStarted, now>>

\* the debug button: setDebugMode re-renders and the effect's cleanup runs
ToggleDebug ==
    /\ detectionTimeoutRef' = effectCleanup(detectionTimeoutRef)
    /\ event' = "debug"
    /\ UNCHANGED <<coreVars, detectedSeals, lastDetectedSealRef, isStarted,
                   now, observed>>

ConfirmNext ==
    \/ Frame
    \/ TimeoutFires
    \/ Tick
    \/ handleStartStop
    \/ handleClearSeals
    \/ ToggleDebug

ConfirmSpec == Init /\ [][ConfirmNext]_vars

---------------------------------------------------------------------------
(* Properties *)

\* a call has been made
Called == status # "idle"

\* the collection is exactly one Left and one Right entry, each with a
\* non-empty landmark sequence
IsLeftRightPair(hs) ==
    /\ Len(hs) = 2
    /\ \E i, j \in 1..2 :
         /\ hs[i].handedness = "Left"
         /\ hs[j].handedness = "Right"
         /\ \A k \in {i, j} :
              /\ hs[k].landmarks.t = "array"
              /\ \E n \in LandmarkIdx : hs[k].landmarks.at[n].t = "object"

\* the detection memory holds the analyses of an earlier frame
MemoryFilled ==
    /\ previousState.t = "object"
    /\ previousState.leftAnalysis.t = "object"
    /\ previousState.rightAnalysis.t = "object"
    /\ previousState.relationship.t = "object"

\* C1: a call whose argument is not exactly one Left and one Right hand
\* with landmarks (0, 1 or 3+ entries, two Left, two Right, an entry
\* without landmarks) returns {seal: none, confidence: 0}, whatever the
\* detection memory holds.
C1_MalformedInputYieldsNone ==
    (Called /\ ~IsLeftRightPair(hands)) => result = None

C1_Witness ==
    /\ Called /\ ~IsLeftRightPair(hands) /\ Len(hands) = 3
    /\ MemoryFilled
    /\ result = None

\* C2: no call raises to its caller; every internal failure is returned as
\* {seal: none, confidence: 0}.
C2_NeverRaises ==
    /\ status # "raised"
    /\ status = "caught" => result = None

C2_Witness == status = "caught" /\ result = None /\ MemoryFilled

\* the analyses the latest call stored (it reached the decision tree)
Classified == status = "classified"

LeftAnalysis == previousState.leftAnalysis

RightAnalysis == previousState.rightAnalysis

Relationship == previousState.relationship

\* what each scorer reports on the stored analyses
ScorerReports ==
    [Bird    |-> checkBirdSeal(LeftAnalysis, RightAnalysis, Relationship),
     Dragon  |-> checkDragonSeal(LeftAnalysis, RightAnalysis, Relationship),
     Tiger   |-> checkTigerSeal(LeftAnalysis, RightAnalysis, Relationship),
     Boar    |-> checkBoarSeal(LeftAnalysis, RightAnalysis, Relationship),
     Hare    |-> checkHareSeal(LeftAnalysis, RightAnalysis, Relationship),
     Monkey  |-> checkMonkeySeal(LeftAnalysis, RightAnalysis, Relationship),
     Rat     |-> checkRatSeal(LeftAnalysis, RightAnalysis, Relationship),
     Serpent |-> checkSerpentSeal(LeftAnalysis, RightAnalysis, Relationship),
     Ram     |-> checkRamSeal(LeftAnalysis, RightAnalysis, Relationship)]

Scorers == DOMAIN ScorerReports

\* C3: every confidence a scorer reports, and every confidence returned by
\* detectHandSeal, lies in [0, 1].
C3_ConfidenceInUnitInterval ==
    /\ result.confidence >= 0 /\ result.confidence <= 100
    /\ MemoryFilled =>
         \A s \in Scorers :
            /\ ScorerReports[s].confidence >= 0
            /\ ScorerReports[s].confidence <= 100

\* results of the four buckets on the stored analyses
TriangleBucket ==
    detectTriangleFormationSeals(LeftAnalysis, RightAnalysis, Relationship)

SpecialBucket ==
    detectSpecialFormationSeals(LeftAnalysis, RightAnalysis, Relationship)

VerticalBucket == detectVerticalSeals(LeftAnalysis, RightAnalysis, Relationship)

MixedBucket ==
    detectMixedOrientationSeals(LeftAnalysis, RightAnalysis, Relationship)

\* a bucket was consulted and its result passed its bar
TriangleWins == Relationship.isTriangleFormation /\ TriangleBucket.confidence > 80

SpecialWins == SpecialBucket.confidence > 70

VerticalWins ==
    /\ LeftAnalysis.isVertical /\ RightAnalysis.isVertical
    /\ VerticalBucket.confidence > 80

MixedWins ==
    /\ LeftAnalysis.isVertical # RightAnalysis.isVertical
    /\ MixedBucket.confidence > 80

\* C4: the buckets are consulted in the order triangle, special, vertical,
\* mixed, and the call returns the result of the first one that passes its
\* bar (0.8, 0.7, 0.8, 0.8); in particular a triangle frame on which the
\* Bird scorer matches is reported as Bird, also when a later bucket would
\* match as well.
C4_FirstBucketWins ==
    Classified =>
      /\ TriangleWins => result = TriangleBucket
      /\ (~TriangleWins /\ SpecialWins) => result = SpecialBucket
      /\ (~TriangleWins /\ ~SpecialWins /\ VerticalWins) => result = VerticalBucket
      /\ (~TriangleWins /\ ~SpecialWins /\ ~VerticalWins /\ MixedWins)
            => result = MixedBucket
      /\ (Relationship.isTriangleFormation /\ ScorerReports.Bird.matches)
            => result.seal = "Bird"

C4_Witness ==
    /\ Classified
    /\ Relationship.isTriangleFormation /\ ScorerReports.Bird.matches
    /\ SpecialWins /\ VerticalWins
    /\ result.seal = "Bird"

---------------------------------------------------------------------------
(* The frame of the latest call, read as the claims describe it. *)

LeftEntry  == hands[CHOOSE i \in 1..2 : hands[i].handedness = "Left"]

RightEntry == hands[CHOOSE i \in 1..2 : hands[i].handedness = "Right"]

\* a well-formed numeric point
WellFormed(landmark) ==
    /\ landmark.t = "object"
    /\ landmark.x.t = "number"
    /\ landmark.y.t = "number"

CriticalIdx == {0, 4, 8, 12, 20}

CriticalWellFormed(entry) ==
    \A i \in CriticalIdx : WellFormed(entry.landmarks.at[i])

AllWellFormed(entry) ==
    \A i \in LandmarkIdx : WellFormed(entry.landmarks.at[i])

\* a valid two-hand frame
ValidFrame ==
    IsLeftRightPair(hands) /\ AllWellFormed(LeftEntry) /\ AllWellFormed(RightEntry)

Coord(entry, i) ==
    [x |-> entry.landmarks.at[i].x.v, y |-> entry.landmarks.at[i].y.v]

\* thumb tips within 0.05 of each other, each thumb tip above its own index
\* tip, index tips more than 0.1 apart in y
BirdShape ==
    LET lt == Coord(LeftEntry, 4)
        rt == Coord(RightEntry, 4)
        li == Coord(LeftEntry, 8)
        ri == Coord(RightEntry, 8)
    IN  /\ (lt.x - rt.x) * (lt.x - rt.x) + (lt.y - rt.y) * (lt.y - rt.y) < 25
        /\ lt.y < li.y
        /\ rt.y < ri.y
        /\ (li.y - ri.y > 10 \/ ri.y - li.y > 10)

\* C5: a valid two-hand frame with the thumb tips within 0.05 of each
\* other, each thumb tip above its hand's index tip and the index tips more
\* than 0.1 apart in y is reported as Bird with confidence above 0.8.
C5_BirdScenario ==
    (Called /\ ValidFrame /\ BirdShape)
        => (result.seal = "Bird" /\ result.confidence > 80)

C5_Witness ==
    /\ Called /\ ValidFrame /\ BirdShape
    /\ result.seal = "Bird" /\ result.confidence > 80
    /\ hands[1].handedness = "Right"

---------------------------------------------------------------------------
(* Occlusion flag *)

\* squared wrist-to-wrist distance of the frame of the latest call
WristDistance ==
    LET l == Coord(LeftEntry, 0)
        r == Coord(RightEntry, 0)
    IN  IF /\ WellFormed(LeftEntry.landmarks.at[0])
           /\ WellFormed(RightEntry.landmarks.at[0])
        THEN Num((l.x - r.x) * (l.x - r.x) + (l.y - r.y) * (l.y - r.y))
        ELSE NaN

\* the detection memory holds a relationship
HasRelationship ==
    previousState.t = "object" /\ previousState.relationship.t = "object"

\* C6: when the detection memory holds a previous relationship and the
\* wrist-to-wrist distance of the new frame differs from the distance of
\* the previous successful call by more than 0.2, the new relationship has
\* possibleOcclusion = true, for every previous distance (0 included).
C6_DistanceJumpFlagsOcclusion ==
    [][ ( /\ HasRelationship
          /\ status' = "classified"
          /\ DistanceJump(WristDistance', Relationship.distance) )
        => Relationship'.possibleOcclusion ]_vars

\* C7: the first relationship ever computed (no previous relationship in
\* the detection memory) has possibleOcclusion = false, whatever the wrist
\* positions are.
C7_FirstRelationshipNoOcclusion ==
    [][ (~HasRelationship /\ status' = "classified")
        => ~Relationship'.possibleOcclusion ]_vars

\* the stored relationship is the first one computed, for wrists more than
\* 0.2 apart
C7_Witness ==
    /\ Classified
    /\ LeftAnalysis.depth = 0 /\ RightAnalysis.depth = 0
    /\ DistanceJump(WristDistance, Num(0))
    /\ ~Relationship.possibleOcclusion

---------------------------------------------------------------------------
(* Thresholds *)

Threshold ==
    [Bird |-> 80, Dragon |-> 70, Tiger |-> 90, Boar |-> 80, Hare |-> 80,
     Monkey |-> 70, Rat |-> 75, Serpent |-> 85, Ram |-> 80]

\* C8: a scorer that reports matches = true reports a confidence strictly
\* above its threshold (Bird 0.8, Dragon 0.7, Tiger 0.9, Boar 0.8, Hare 0.8,
\* Monkey 0.7, Rat 0.75, Serpent 0.85, Ram 0.8), the clamped Rat confidence
\* and the rescued Monkey confidence included.
C8_MatchExceedsThreshold ==
    MemoryFilled =>
        \A s \in Scorers :
            ScorerReports[s].matches => ScorerReports[s].confidence > Threshold[s]

\* the Monkey rescue applied: occlusion flagged, both previous analyses
\* with thumb on pinky, weighted terms below 0.7
MonkeyRescued ==
    /\ MemoryFilled
    /\ Relationship.possibleOcclusion
    /\ PrevThumbOnPinky(LeftAnalysis) /\ PrevThumbOnPinky(RightAnalysis)
    /\ ScorerReports.Monkey.confidence = 70

C8_Witness ==
    /\ MemoryFilled
    /\ ScorerReports.Monkey.matches
    /\ ScorerReports.Rat.matches
    /\ PrevThumbOnPinky(LeftAnalysis) /\ PrevThumbOnPinky(RightAnalysis)

---------------------------------------------------------------------------
(* Fallback to the previous frame *)

\* `new` carries the orientation, thumb position and finger positions of
\* `prev`, and its previousState refers to `prev`
CarriedOver(prev, new) ==
    /\ new.isVertical = prev.isVertical
    /\ new.isHorizontal = prev.isHorizontal
    /\ new.thumbPosition = prev.thumbPosition
    /\ new.fingerPositions = prev.fingerPositions
    /\ new.previousState = AsPrevious(prev)

\* the frame being delivered is a Left/Right pair in which this hand's
\* critical landmarks are not all well-formed numeric points
LeftCorrupted == IsLeftRightPair(hands) /\ ~CriticalWellFormed(LeftEntry)

RightCorrupted == IsLeftRightPair(hands) /\ ~CriticalWellFormed(RightEntry)

PartlyCorrupted ==
    \/ LeftCorrupted /\ AllWellFormed(RightEntry)
    \/ RightCorrupted /\ AllWellFormed(LeftEntry)

\* C10: a Left/Right frame in which a critical landmark of one hand is
\* missing or has a non-numeric coordinate, arriving after a successful
\* call, is classified with the previous frame's analysis for that hand,
\* and no exception is raised and caught on the way.
C10_CorruptionAbsorbed ==
    [][ (MemoryFilled /\ PartlyCorrupted')
        => /\ status' = "classified"
           /\ LeftCorrupted' => CarriedOver(LeftAnalysis, LeftAnalysis')
           /\ RightCorrupted' => CarriedOver(RightAnalysis, RightAnalysis')
      ]_vars

---------------------------------------------------------------------------
(* Catalogue *)

Catalogue ==
    {"Monkey", "Dragon", "Rat", "Bird", "Serpent", "Ox", "Dog", "Horse",
     "Tiger", "Boar", "Ram", "Hare"}

\* C11: the seal returned by detectHandSeal is one of Monkey, Dragon, Rat,
\* Bird, Serpent, Ox, Dog, Horse, Tiger, Boar, Ram, Hare, or none; no other
\* name (not the alias Snake either) is returned, whatever the input and
\* the detection memory.
C11_SealFromCatalogue == result.seal \in Catalogue \cup {"null"}

C11_Witness == Classified /\ MemoryFilled /\ result.seal = "Serpent"

---------------------------------------------------------------------------
(* Confirmation layer *)

\* the same seal has been reported with sufficient confidence on every
\* frame for more than the confirmation delay, frames less than the delay
\* apart, and the latest of these frames is less than the delay old
HeldPastDelay ==
    /\ observed.heldSeal # "null"
    /\ now - observed.heldAt < ConfirmDelay
    /\ now - observed.heldSince > ConfirmDelay

\* C12: a seal reported with confidence >= 0.8 on every frame of a
\* continuous period of at least 1 second, frames less than 1 second
\* apart, and different from the last confirmed seal, is confirmed and
\* appended to the sequence once it has persisted for 1 second, while the
\* gesture is still held.
C12_HeldSealIsConfirmed ==
    HeldPastDelay =>
        /\ lastDetectedSealRef = observed.heldSeal
        /\ detectedSeals # <<>>
        /\ detectedSeals[Len(detectedSeals)] = observed.heldSeal

\* C13: when a pending confirmation fires for seal s while the sequence is
\* S, the sequence becomes S followed by s.
C13_ConfirmationAppends ==
    [][ event' = "confirmed"
        => detectedSeals' = Append(detectedSeals, lastDetectedSealRef') ]_vars

\* a step that appends to the sequence
Appends ==
    \/ event' = "confirmed"
    \/ detectedSeals' # detectedSeals /\ detectedSeals' # <<>>

\* C14: a seal is appended only if a detection naming it, with confidence
\* >= 0.8 and different from the last confirmed seal, was produced at least
\* 1 second earlier and no later qualifying detection came in between; a
\* detection with confidence below 0.8 never leads to an append.
C14_AppendOnlyAfterDelay ==
    [][ Appends =>
          /\ detectedSeals' # <<>>
          /\ detectedSeals'[Len(detectedSeals')] = observed.qSeal
          /\ observed.qConfidence >= 80
          /\ observed.qSeal # lastDetectedSealRef
          /\ now >= observed.qAt + ConfirmDelay ]_vars

\* a seal was appended although the latest frame named another seal with
\* a confidence below 0.8
C14_Witness ==
    /\ event = "confirmed"
    /\ detectedSeals = <<"Bird">>
    /\ result.seal = "Rat" /\ result.confidence < 80
    /\ now >= observed.qAt + ConfirmDelay

\* the user's Clear Seals or Stop Camera command
Command == event' = "clearSeals" \/ (event' = "startStop" /\ isStarted)

\* C15: after Clear Seals or Stop Camera the sequence is empty and the last
\* confirmed seal is forgotten, and no confirmation scheduled before the
\* command is appended after it.
C15_ResetOnCommand ==
    [][ /\ Command =>
            /\ detectedSeals' = <<>>
            /\ lastDetectedSealRef' = "null"
        /\ Appends => observed.qAt >= observed.resetAt ]_vars

\* Clear Seals came while a confirmation was scheduled, and the time at
\* which it was due has passed with the sequence still empty
C15_Witness ==
    /\ observed.resetAt > observed.qAt
    /\ observed.resetAt < observed.qAt + ConfirmDelay
    /\ now >= observed.qAt + ConfirmDelay
    /\ isStarted
    /\ detectedSeals = <<>>
    /\ lastDetectedSealRef = "null"

---------------------------------------------------------------------------
(* Vertical-alignment bucket *)

\* the vertical bucket is the one consulted, and Boar, Serpent and Ram do
\* not match
VerticalBucketDecides ==
    /\ Classified
    /\ LeftAnalysis.isVertical /\ RightAnalysis.isVertical
    /\ ~TriangleWins /\ ~SpecialWins
    /\ ~ScorerReports.Boar.matches
    /\ ~ScorerReports.Serpent.matches
    /\ ~ScorerReports.Ram.matches

\* C17: in the vertical-alignment bucket the seals are tried in the order
\* Boar, Serpent, Ram, Dragon, Tiger and the first whose confidence exceeds
\* 0.8 is the result: with both hands vertical, no earlier bucket
\* returning, and Boar, Serpent and Ram not matching, a frame on which
\* Tiger matches while the Dragon confidence is not above 0.8 is reported
\* as Tiger.
C17_TigerAfterWeakDragon ==
    ( /\ VerticalBucketDecides
      /\ ScorerReports.Tiger.matches
      /\ ScorerReports.Dragon.confidence <= 80 )
    => result = [seal |-> "Tiger", confidence |-> ScorerReports.Tiger.confidence]

---------------------------------------------------------------------------
(* Single-hand analyzer: failure, previousState, history depth *)

\* the analyses the detection memory hands to the next call
StoredLeft == InitializedState(previousState).leftAnalysis

StoredRight == InitializedState(previousState).rightAnalysis

\* every boolean feature of the analysis is defined
FullyPopulated(analysis) ==
    /\ analysis.isVertical \in BOOLEAN
    /\ analysis.isHorizontal \in BOOLEAN
    /\ \A f \in DOMAIN analysis.thumbPosition :
           analysis.thumbPosition[f] \in BOOLEAN
    /\ \A f \in DOMAIN analysis.fingerPositions :
           analysis.fingerPositions[f] \in BOOLEAN

\* C18: analyzeHandPosition never fails and returns an analysis whose
\* boolean features are all defined, for every landmark input and every
\* previous analysis, also when critical landmarks are missing or
\* non-numeric and there is no previous analysis.
C18_AnalyzerNeverFails ==
    [][ IsLeftRightPair(hands') =>
          /\ ~analyzeHandPositionThrows(LeftEntry'.landmarks, StoredLeft)
          /\ ~analyzeHandPositionThrows(RightEntry'.landmarks, StoredRight)
          /\ FullyPopulated(analyzeHandPosition(LeftEntry'.landmarks, StoredLeft))
          /\ FullyPopulated(analyzeHandPosition(RightEntry'.landmarks, StoredRight))
          /\ ~analyzeHandsRelationshipThrows(hands') => status' = "classified"
      ]_vars

\* C19: an analysis carries a previousState only when the frame's critical
\* landmarks failed the validity check; an analysis computed from valid
\* landmarks has none, whether or not a previous analysis was available.
C19_PreviousStateOnlyOnFallback ==
    (Classified /\ IsLeftRightPair(hands)) =>
        /\ CriticalWellFormed(LeftEntry)
              => LeftAnalysis.previousState = Undefined
        /\ CriticalWellFormed(RightEntry)
              => RightAnalysis.previousState = Undefined

\* number of earlier frames reachable from the memory through previousState
HistoryDepth == Depth(previousState)

\* C20: the history reachable from the detection memory through the
\* previousState links of the stored analyses is at most one frame deep,
\* after any number of successful calls.
C20_MemoryOneFrameDeep == HistoryDepth <= 1

---------------------------------------------------------------------------
(* Detection memory and bucket gating *)

StoredRelationship == InitializedState(previousState).relationship

\* C21: after a call that passes the precondition checks and completes
\* both hand analyses and the relationship analysis, the detection memory
\* holds exactly that call's leftAnalysis, rightAnalysis and relationship,
\* also when the decision tree returns {none, 0}.
C21_MemoryHoldsCurrentAnalyses ==
    [][ status' = "classified" =>
          /\ LeftAnalysis' =
                 analyzeHandPosition(LeftEntry'.landmarks, StoredLeft)
          /\ RightAnalysis' =
                 analyzeHandPosition(RightEntry'.landmarks, StoredRight)
          /\ Relationship' =
                 analyzeHandsRelationship(hands', StoredRelationship) ]_vars

\* a second successful call found no seal and overwrote the memory
C21_Witness ==
    /\ Classified /\ result = None
    /\ MemoryFilled
    /\ LeftAnalysis.depth = 1 /\ RightAnalysis.depth = 1
    /\ ValidFrame
    /\ Relationship.distance = WristDistance

VerticalSeals == {"Boar", "Serpent", "Ram", "Dragon", "Tiger"}

MixedSeals == {"Dog", "Ox"}

\* C22: a vertical-alignment seal is returned only when both hands are
\* vertical, a mixed-orientation seal only when exactly one hand is
\* vertical, and when no bucket yields a result above its bar the result
\* is {seal: none, confidence: 0}.
C22_BucketGating ==
    /\ result.seal \in VerticalSeals =>
           LeftAnalysis.isVertical /\ RightAnalysis.isVertical
    /\ result.seal \in MixedSeals =>
           LeftAnalysis.isVertical # RightAnalysis.isVertical
    /\ ( /\ Classified
         /\ ~TriangleWins /\ ~SpecialWins /\ ~VerticalWins /\ ~MixedWins )
       => result = None

\* wrists 0.5 apart, no scorer matches: nothing is returned
C22_Witness ==
    /\ Classified /\ ValidFrame
    /\ WristDistance = Num(50 * 50)
    /\ \A s \in Scorers : ~ScorerReports[s].matches
    /\ result = None

---------------------------------------------------------------------------
(* Occlusion rescue *)

RatV1Report == checkRatSealV1(LeftAnalysis, RightAnalysis, Relationship)

SerpentV1Report == checkSerpentSealV1(LeftAnalysis, RightAnalysis, Relationship)

\* C23: in a scorer with the rescue clause, when possibleOcclusion is set
\* and the previous state shows the key sub-condition (Monkey: thumbOnPinky
\* on both hands; Rat of the earlier revision: right isIndexUp and
\* isMiddleUp; Serpent of the earlier revision: hands together now and all
\* fingers together on both hands last frame), the reported confidence is
\* at least 0.7 whatever the current features are.
C23_RescueFloor ==
    (MemoryFilled /\ Relationship.possibleOcclusion) =>
      /\ (PrevThumbOnPinky(LeftAnalysis) /\ PrevThumbOnPinky(RightAnalysis))
            => ScorerReports.Monkey.confidence >= 70
      /\ PrevIndexMiddleUp(RightAnalysis) => RatV1Report.confidence >= 70
      /\ ( /\ Relationship.areHandsTogether
           /\ PrevAllFingersTogether(LeftAnalysis)
           /\ PrevAllFingersTogether(RightAnalysis) )
            => SerpentV1Report.confidence >= 70

\* the rescue lifted a Monkey confidence whose weighted terms give 0
C23_Witness ==
    /\ MonkeyRescued
    /\ ~Relationship.areHandsTogether
    /\ ~(LeftAnalysis.fingerPositions.thumbOnPinky
           /\ RightAnalysis.fingerPositions.thumbOnPinky)
    /\ ~(LeftAnalysis.fingerPositions.areAllFingersTogether
           /\ RightAnalysis.fingerPositions.areAllFingersTogether)

\* what the same frame returns when the detection memory is empty
FreshResult == detectHandSeal(hands, Null).value

\* C24: for a frame whose landmarks are all valid the result depends on
\* the frame alone: whatever the detection memory held (nothing, or any
\* previous analyses and relationship, with or without possibleOcclusion),
\* the call returns the seal and confidence it returns from an empty
\* memory; the occlusion rescue never changes the seal returned.
C24_ResultIndependentOfMemory ==
    (Called /\ ValidFrame) => result = FreshResult

\* a valid frame classified with the Monkey rescue applied
C24_Witness ==
    /\ Classified /\ ValidFrame
    /\ MonkeyRescued
    /\ ScorerReports.Monkey.confidence >
           checkMonkeySeal_noRescue(LeftAnalysis, RightAnalysis,
                                    Relationship).confidence
    /\ result = FreshResult

---------------------------------------------------------------------------
(* Seals that are never returned *)

\* the conditions of the Horse rule other than the triangle formation
HorseRule ==
    /\ Relationship.areIndexFingersTogether
    /\ LeftAnalysis.fingerPositions.areFingersStraight
    /\ RightAnalysis.fingerPositions.areFingersStraight

\* C25: detectHandSeal never returns Horse: the Horse rule is evaluated
\* only under isTriangleFormation (index tips more than 0.1 apart in y) and
\* requires areIndexFingersTogether (index tips less than 0.05 apart), and
\* the two cannot hold on the same frame.
C25_NeverHorse ==
    /\ result.seal # "Horse"
    /\ MemoryFilled =>
         ~(Relationship.isTriangleFormation
             /\ Relationship.areIndexFingersTogether)

\* the Horse rule holds on the frame, which is not a triangle formation
C25_Witness ==
    /\ Classified /\ ValidFrame
    /\ HorseRule
    /\ ~Relationship.isTriangleFormation
    /\ result.seal \notin {"Horse", "null"}

\* C26: detectHandSeal never returns Dragon: a Dragon confidence above the
\* bucket bar 0.8 needs hands together, left thumb on top, index fingers
\* together and all fingers of both hands together, and with both hands
\* vertical Ram, or a scorer tried before it, then matches first.
C26_NeverDragon ==
    /\ result.seal # "Dragon"
    /\ ( /\ MemoryFilled
         /\ LeftAnalysis.isVertical /\ RightAnalysis.isVertical
         /\ ScorerReports.Dragon.confidence > 80 )
       => \/ ScorerReports.Boar.matches
          \/ ScorerReports.Serpent.matches
          \/ ScorerReports.Ram.matches

\* the vertical bucket decided on a frame whose Dragon confidence is above
\* 0.8, and Ram was returned
C26_Witness ==
    /\ Classified /\ ValidFrame
    /\ ~TriangleWins /\ ~SpecialWins
    /\ ScorerReports.Dragon.confidence > 80
    /\ result.seal = "Ram"

---------------------------------------------------------------------------
(* Early returns and the shape of the result *)

EarlyReturn == status \in {"wrongCount", "missingHand"}

\* C27: a call that returns early on a precondition failure (entry count
\* other than 2, or a missing Left or Right hand) leaves the detection
\* memory, that is the stored left analysis, right analysis and
\* relationship, unchanged, so the call after it is handed the analyses of
\* the last successful frame.
C27_EarlyReturnKeepsMemory ==
    [][ EarlyReturn' =>
          /\ previousState' = previousState
          /\ result' = None ]_vars

\* an early return on a filled detection memory
C27_Witness ==
    /\ EarlyReturn
    /\ MemoryFilled
    /\ ~IsLeftRightPair(hands)

TriangleSeals == {"Bird", "Horse"}

\* C28: in every result seal is none if and only if confidence is 0, every
\* result with a seal has confidence strictly above 0.7, and strictly
\* above 0.8 for the seals of the triangle, vertical and mixed buckets.
C28_ResultShape ==
    /\ result.seal = "null" <=> result.confidence = 0
    /\ result.seal # "null" => result.confidence > 70
    /\ result.seal \in TriangleSeals \cup VerticalSeals \cup MixedSeals
         => result.confidence > 80

\* the vertical bucket reports Dragon at 0.8, which the decision tree
\* refuses
C28_Witness ==
    /\ Classified
    /\ ~TriangleWins /\ ~SpecialWins
    /\ LeftAnalysis.isVertical /\ RightAnalysis.isVertical
    /\ detectVerticalSeals(LeftAnalysis, RightAnalysis, Relationship)
         = [seal |-> "Dragon", confidence |-> 80]
    /\ result = None

---------------------------------------------------------------------------
(* Repeated fallback *)

SameFeatures(a, b) ==
    /\ b.isVertical = a.isVertical
    /\ b.isHorizontal = a.isHorizontal
    /\ b.thumbPosition = a.thumbPosition
    /\ b.fingerPositions = a.fingerPositions

\* the number of consecutive calls on which the stored analysis of a hand
\* was carried over
Age(analysis) == analysis.depth

\* C29: the fallback has no age limit: when a hand's critical landmarks are
\* invalid on consecutive successful calls after a valid frame with analysis
\* A, the analysis stored on each of these calls has the orientation,
\* thumbPosition and fingerPositions of the one stored before it, hence of
\* A, however many calls have already carried it over.
C29_FallbackHasNoAgeLimit ==
    [][ (MemoryFilled /\ status' = "classified") =>
          /\ LeftCorrupted' =>
               /\ SameFeatures(LeftAnalysis, LeftAnalysis')
               /\ Age(LeftAnalysis') = Age(LeftAnalysis) + 1
               /\ SameFeatures(LeftAnalysis'.previousState, LeftAnalysis')
          /\ RightCorrupted' =>
               /\ SameFeatures(RightAnalysis, RightAnalysis')
               /\ Age(RightAnalysis') = Age(RightAnalysis) + 1
               /\ SameFeatures(RightAnalysis'.previousState, RightAnalysis')
      ]_vars

\* the left hand has been carried over on two consecutive calls, with an
\* orientation
C29_Witness ==
    /\ Classified /\ LeftCorrupted
    /\ Age(LeftAnalysis) = 2
    /\ Age(LeftAnalysis.previousState) = 1
    /\ LeftAnalysis.isVertical \/ LeftAnalysis.isHorizontal
    /\ SameFeatures(LeftAnalysis.previousState, LeftAnalysis)

---------------------------------------------------------------------------
(* Consecutive confirmations *)

\* C30: the confirmation layer never confirms the same seal twice in a
\* row: a confirmation names a seal other than the last confirmed one, and
\* a detection of the last confirmed seal schedules nothing, until another
\* seal is confirmed or the user clears or stops.
C30_NoRepeatedConfirmation ==
    [][ /\ event' = "confirmed" =>
              /\ lastDetectedSealRef' # "null"
              /\ lastDetectedSealRef' # lastDetectedSealRef
        /\ (event' = "results" /\ result'.seal = lastDetectedSealRef) =>
              detectionTimeoutRef' = detectionTimeoutRef ]_vars

\* Bird has been confirmed, a further strong detection of Bird has arrived
\* and nothing is scheduled
C30_Witness ==
    /\ lastDetectedSealRef = "Bird"
    /\ detectedSeals = <<"Bird">>
    /\ event = "results"
    /\ result = [seal |-> "Bird", confidence |-> 90]
    /\ ~detectionTimeoutRef.active

=============================================================================
